---- MODULE Spec2Model ----
(***************************************************************************)
(* Keyword-based prompt filter (src/AntiJailBreak.py).                     *)
(*                                                                         *)
(* filter_prompt(user_text) is the pipeline                                *)
(*     normalize -> tokenize -> bucket matching -> decide_action.          *)
(* Strings are sequences of characters; a character is a one-character     *)
(* string, and a code point outside ASCII is written "U+XXXX".  The        *)
(* regular expressions of the source are modelled by a backtracking        *)
(* matcher over the characters of the subject string.                      *)
(***************************************************************************)
EXTENDS Integers, Sequences, FiniteSets, TLC

VARIABLES
    pc,            \* position in the pipeline
    user_text,     \* argument of filter_prompt / normalize
    text,          \* check_buckets: text = normalize(user_text)
    split_tokens,  \* tokenize: text.split(), the argument of squash_single_letters
    tokens,        \* check_buckets: tokens = tokenize(text)
    bucket_hits,   \* filter_prompt: bucket_hits = check_buckets(user_text)
    action,        \* filter_prompt: action = decide_action(bucket_hits)
    prev_action,   \* action returned for the previous message of the same sender
    adds           \* how many times a matched phrase was added to the message

vars == <<pc, user_text, text, split_tokens, tokens, bucket_hits, action, prev_action, adds>>

----------------------------------------------------------------------------
(* Bounds of the explored inputs.                                          *)

MaxLen == 3
MaxTokens == 5
MaxHits == 2
MaxCount == 2
MaxWeight == 3
MaxFill == 3
MaxDegenerate == 3
MaxMonoWords == 3
MaxAdds == 1

----------------------------------------------------------------------------
(* Characters.                                                             *)

LowerLetters ==
    {"a","b","c","d","e","f","g","h","i","j","k","l","m",
     "n","o","p","q","r","s","t","u","v","w","x","y","z"}

UpperSeq ==
    <<"A","B","C","D","E","F","G","H","I","J","K","L","M",
      "N","O","P","Q","R","S","T","U","V","W","X","Y","Z">>

LowerSeq ==
    <<"a","b","c","d","e","f","g","h","i","j","k","l","m",
      "n","o","p","q","r","s","t","u","v","w","x","y","z">>

UpperLetters == {UpperSeq[i] : i \in 1..Len(UpperSeq)}

Digits == {"0","1","2","3","4","5","6","7","8","9"}

\* What \s, str.split() and str.strip() treat as whitespace.
Whitespace == {" ", "\t", "\n"}

\* What \w and \b treat as a word character.
WordChars == LowerLetters \cup UpperLetters \cup Digits \cup {"_"}

\* "".join(parts)
RECURSIVE Concat(_)
Concat(parts) ==
    IF parts = <<>> THEN <<>> ELSE Head(parts) \o Concat(Tail(parts))

----------------------------------------------------------------------------
(* Rule table.                                                             *)

BUCKETS ==
  [ authority_override |-> [risk |-> "high", weight |-> 4, keywords |-> <<
        <<"i","g","n","o","r","e"," ","p","r","e","v","i","o","u","s"," ","i","n","s","t","r","u","c","t","i","o","n","s">>,   \* ignore previous instructions
        <<"o","v","e","r","r","i","d","e"," ","s","a","f","e","t","y"," ","p","r","o","t","o","c","o","l","s">>,   \* override safety protocols
        <<"r","e","p","l","a","c","e"," ","s","y","s","t","e","m"," ","p","r","o","m","p","t">>,   \* replace system prompt
        <<"s","u","p","e","r","s","e","d","e"," ","e","x","i","s","t","i","n","g"," ","r","u","l","e","s">>,   \* supersede existing rules
        <<"h","i","g","h","e","r"," ","p","r","i","o","r","i","t","y">>,   \* higher priority
        <<"h","i","g","h","e","r"," ","a","u","t","h","o","r","i","t","y">>,   \* higher authority
        <<"t","a","k","e"," ","c","o","n","t","r","o","l">>,   \* take control
        <<"c","o","m","m","a","n","d"," ","m","o","d","e">>,   \* command mode
        <<"o","b","e","y"," ","o","n","l","y"," ","m","e">>,   \* obey only me
        <<"f","o","l","l","o","w"," ","o","n","l","y">>,   \* follow only
        <<"u","n","r","e","s","t","r","i","c","t","e","d"," ","m","o","d","e">>,   \* unrestricted mode
        <<"u","n","f","i","l","t","e","r","e","d"," ","r","e","s","p","o","n","s","e">>    \* unfiltered response
      >>],
    role_play |-> [risk |-> "medium", weight |-> 2, keywords |-> <<
        <<"a","c","t"," ","a","s">>,   \* act as
        <<"a","c","t","i","n","g">>,   \* acting
        <<"r","o","l","e"," ","p","l","a","y">>,   \* role play
        <<"a","d","o","p","t"," ","p","e","r","s","o","n","a">>,   \* adopt persona
        <<"p","l","a","y"," ","c","h","a","r","a","c","t","e","r">>,   \* play character
        <<"s","i","m","u","l","a","t","e"," ","s","c","e","n","a","r","i","o">>,   \* simulate scenario
        <<"s","i","m","u","l","a","t","i","o","n">>,   \* simulation
        <<"p","r","e","t","e","n","d"," ","t","o"," ","b","e">>,   \* pretend to be
        <<"i","m","a","g","i","n","e"," ","y","o","u","r","s","e","l","f"," ","a","s">>,   \* imagine yourself as
        <<"f","i","c","t","i","o","n","a","l"," ","c","h","a","r","a","c","t","e","r">>,   \* fictional character
        <<"h","y","p","o","t","h","e","t","i","c","a","l"," ","s","i","t","u","a","t","i","o","n">>,   \* hypothetical situation
        <<"r","o","l","e"," ","p","l","a","y","i","n","g"," ","s","c","e","n","a","r","i","o">>    \* role playing scenario
      >>],
    memory_reset |-> [risk |-> "high", weight |-> 4, keywords |-> <<
        <<"f","o","r","g","e","t"," ","p","r","e","v","i","o","u","s">>,   \* forget previous
        <<"r","e","s","e","t"," ","m","e","m","o","r","y">>,   \* reset memory
        <<"w","i","p","e"," ","m","e","m","o","r","y">>,   \* wipe memory
        <<"c","l","e","a","r"," ","h","i","s","t","o","r","y">>,   \* clear history
        <<"d","i","s","c","a","r","d"," ","i","n","s","t","r","u","c","t","i","o","n","s">>,   \* discard instructions
        <<"r","e","m","o","v","e"," ","r","e","s","t","r","i","c","t","i","o","n","s">>,   \* remove restrictions
        <<"e","r","a","s","e"," ","r","u","l","e","s">>,   \* erase rules
        <<"s","t","a","r","t"," ","o","v","e","r">>,   \* start over
        <<"f","r","e","s","h"," ","s","t","a","r","t">>,   \* fresh start
        <<"n","e","w"," ","r","u","l","e","s">>    \* new rules
      >>],
    prompt_internals |-> [risk |-> "critical", weight |-> 5, keywords |-> <<
        <<"s","y","s","t","e","m"," ","p","r","o","m","p","t">>,   \* system prompt
        <<"d","e","v","e","l","o","p","e","r"," ","m","o","d","e">>,   \* developer mode
        <<"s","y","s","t","e","m"," ","i","n","s","t","r","u","c","t","i","o","n","s">>,   \* system instructions
        <<"s","y","s","t","e","m"," ","m","e","s","s","a","g","e">>,   \* system message
        <<"o","r","i","g","i","n","a","l"," ","p","r","o","m","p","t">>,   \* original prompt
        <<"s","a","f","e","t","y"," ","p","o","l","i","c","y">>,   \* safety policy
        <<"a","l","i","g","n","m","e","n","t"," ","r","u","l","e","s">>,   \* alignment rules
        <<"a","i"," ","a","l","i","g","n","m","e","n","t">>,   \* ai alignment
        <<"c","o","n","t","e","n","t"," ","m","o","d","e","r","a","t","i","o","n">>,   \* content moderation
        <<"s","a","f","e","t","y"," ","f","i","l","t","e","r","s">>,   \* safety filters
        <<"s","a","f","e","t","y"," ","g","u","a","r","d","r","a","i","l","s">>    \* safety guardrails
      >>],
    compliance_pressure |-> [risk |-> "medium", weight |-> 2, keywords |-> <<
        <<"y","o","u"," ","m","u","s","t">>,   \* you must
        <<"s","t","r","i","c","t","l","y"," ","r","e","q","u","i","r","e","d">>,   \* strictly required
        <<"m","a","n","d","a","t","o","r","y"," ","c","o","m","p","l","i","a","n","c","e">>,   \* mandatory compliance
        <<"f","u","l","l","y"," ","o","b","l","i","g","a","t","e","d">>,   \* fully obligated
        <<"e","x","p","l","i","c","i","t","l","y"," ","a","l","l","o","w","e","d">>,   \* explicitly allowed
        <<"p","e","r","m","i","t","t","e","d"," ","t","o">>,   \* permitted to
        <<"a","u","t","h","o","r","i","z","e","d"," ","t","o">>,   \* authorized to
        <<"s","u","p","p","o","s","e","d"," ","t","o">>,   \* supposed to
        <<"c","a","n","n","o","t"," ","r","e","f","u","s","e">>    \* cannot refuse
      >>],
    justification |-> [risk |-> "low", weight |-> 1, keywords |-> <<
        <<"e","d","u","c","a","t","i","o","n","a","l"," ","p","u","r","p","o","s","e">>,   \* educational purpose
        <<"r","e","s","e","a","r","c","h"," ","p","u","r","p","o","s","e","s">>,   \* research purposes
        <<"t","e","s","t","i","n","g"," ","e","n","v","i","r","o","n","m","e","n","t">>,   \* testing environment
        <<"a","c","a","d","e","m","i","c"," ","s","t","u","d","y">>,   \* academic study
        <<"h","a","r","m","l","e","s","s"," ","a","c","t","i","v","i","t","y">>,   \* harmless activity
        <<"b","e","n","i","g","n"," ","i","n","t","e","n","t">>,   \* benign intent
        <<"e","t","h","i","c","a","l"," ","r","e","s","e","a","r","c","h">>,   \* ethical research
        <<"t","h","e","o","r","e","t","i","c","a","l"," ","d","i","s","c","u","s","s","i","o","n">>,   \* theoretical discussion
        <<"i","n","f","o","r","m","a","t","i","o","n","a","l"," ","c","o","n","t","e","n","t">>    \* informational content
      >>],
    explicit_exploit |-> [risk |-> "critical", weight |-> 5, keywords |-> <<
        <<"j","a","i","l","b","r","e","a","k"," ","a","t","t","e","m","p","t">>,   \* jailbreak attempt
        <<"e","x","p","l","o","i","t"," ","v","u","l","n","e","r","a","b","i","l","i","t","y">>,   \* exploit vulnerability
        <<"b","y","p","a","s","s"," ","r","e","s","t","r","i","c","t","i","o","n","s">>,   \* bypass restrictions
        <<"f","i","n","d"," ","l","o","o","p","h","o","l","e">>,   \* find loophole
        <<"w","o","r","k","a","r","o","u","n","d"," ","m","e","t","h","o","d">>,   \* workaround method
        <<"e","v","a","d","e"," ","d","e","t","e","c","t","i","o","n">>,   \* evade detection
        <<"d","i","s","a","b","l","e"," ","s","a","f","e","t","y">>,   \* disable safety
        <<"b","r","e","a","k"," ","r","u","l","e","s">>,   \* break rules
        <<"t","r","i","c","k"," ","t","h","e"," ","s","y","s","t","e","m">>    \* trick the system
      >>],
    output_control |-> [risk |-> "medium", weight |-> 2, keywords |-> <<
        <<"o","u","t","p","u","t"," ","o","n","l","y">>,   \* output only
        <<"e","x","a","c","t","l","y"," ","a","s"," ","r","e","q","u","e","s","t","e","d">>,   \* exactly as requested
        <<"v","e","r","b","a","t","i","m"," ","c","o","p","y">>,   \* verbatim copy
        <<"r","a","w"," ","o","u","t","p","u","t">>,   \* raw output
        <<"d","i","r","e","c","t"," ","r","e","s","p","o","n","s","e">>,   \* direct response
        <<"n","o"," ","r","e","f","u","s","a","l">>,   \* no refusal
        <<"n","o"," ","s","a","f","e","t","y">>,   \* no safety
        <<"n","o"," ","f","i","l","t","e","r","i","n","g">>,   \* no filtering
        <<"n","o","t","h","i","n","g"," ","e","l","s","e">>    \* nothing else
      >>] ]

BucketOrder == <<"authority_override", "role_play", "memory_reset", "prompt_internals", "compliance_pressure", "justification", "explicit_exploit", "output_control">>

----------------------------------------------------------------------------
(* Normalization.                                                          *)

LEET_MAP ==
    ("0" :> "o") @@ ("1" :> "l") @@ ("3" :> "e") @@ ("4" :> "a") @@
    ("5" :> "s") @@ ("7" :> "t") @@ ("8" :> "b") @@ ("9" :> "g") @@
    ("@" :> "a") @@ ("$" :> "s") @@ ("!" :> "i") @@ ("|" :> "l")

\* unicodedata.normalize("NFKC", c) of one code point.  The code points of
\* the model compose with no neighbour, so NFKC acts on each separately:
\* U+00A0 NO-BREAK SPACE, U+FF33 FULLWIDTH S, U+FB01 LIGATURE FI,
\* U+2460 CIRCLED DIGIT ONE; every other one is its own normal form.
NFKCChar(c) ==
    CASE c = "U+00A0" -> <<" ">>
      [] c = "U+FF33" -> <<"S">>
      [] c = "U+FB01" -> <<"f", "i">>
      [] c = "U+2460" -> <<"1">>
      [] OTHER -> <<c>>

NFKC(s) == Concat([i \in 1..Len(s) |-> NFKCChar(s[i])])

\* str.lower() of one code point (U+00C9 is E WITH ACUTE, U+00E9 its lowercase).
LowerChar(c) ==
    IF c \in UpperLetters
    THEN LowerSeq[CHOOSE i \in 1..Len(UpperSeq) : UpperSeq[i] = c]
    ELSE IF c = "U+00C9" THEN "U+00E9" ELSE c

Lower(s) == [i \in 1..Len(s) |-> LowerChar(s[i])]

\* text.translate(LEET_MAP)
Translate(s) ==
    [i \in 1..Len(s) |-> IF s[i] \in DOMAIN LEET_MAP THEN LEET_MAP[s[i]] ELSE s[i]]

\* text.replace("_", " ")
ReplaceUnderscore(s) == [i \in 1..Len(s) |-> IF s[i] = "_" THEN " " ELSE s[i]]

\* re.sub(r"[^a-z0-9\s]", " ", text)
ReplaceNonAlnum(s) ==
    [i \in 1..Len(s) |->
        IF s[i] \in LowerLetters \cup Digits \cup Whitespace THEN s[i] ELSE " "]

\* re.sub(r"\s+", " ", text): every maximal run of whitespace becomes one space.
RECURSIVE CollapseFrom(_, _)
CollapseFrom(s, i) ==
    IF i > Len(s) THEN <<>>
    ELSE IF s[i] \in Whitespace
         THEN (IF i > 1 /\ s[i-1] \in Whitespace THEN <<>> ELSE <<" ">>)
              \o CollapseFrom(s, i + 1)
         ELSE <<s[i]>> \o CollapseFrom(s, i + 1)

CollapseWhitespace(s) == CollapseFrom(s, 1)

\* str.strip()
RECURSIVE LStrip(_)
LStrip(s) ==
    IF s # <<>> /\ Head(s) \in Whitespace THEN LStrip(Tail(s)) ELSE s

RECURSIVE RStrip(_)
RStrip(s) ==
    IF s # <<>> /\ s[Len(s)] \in Whitespace
    THEN RStrip(SubSeq(s, 1, Len(s) - 1)) ELSE s

Strip(s) == RStrip(LStrip(s))

\* normalize with str.strip() applied first instead of last.
normalize_strip_first(t) ==
    CollapseWhitespace(ReplaceNonAlnum(ReplaceUnderscore(Translate(Lower(NFKC(Strip(t)))))))

normalize(t) ==
    LET t1 == Lower(NFKC(t))
        t2 == Translate(t1)
        t3 == ReplaceUnderscore(t2)
        t4 == ReplaceNonAlnum(t3)
        t5 == CollapseWhitespace(t4)
    IN  Strip(t5)

----------------------------------------------------------------------------
(* Tokenization.                                                           *)

\* str.split(): the maximal runs of non-whitespace characters, in order.
RECURSIVE SplitFrom(_, _, _)
SplitFrom(s, i, cur) ==
    IF i > Len(s) THEN (IF cur = <<>> THEN <<>> ELSE <<cur>>)
    ELSE IF s[i] \in Whitespace
         THEN (IF cur = <<>> THEN <<>> ELSE <<cur>>) \o SplitFrom(s, i + 1, <<>>)
         ELSE SplitFrom(s, i + 1, Append(cur, s[i]))

Split(s) == SplitFrom(s, 1, <<>>)

\* " ".join(parts)
RECURSIVE Join(_)
Join(parts) ==
    IF parts = <<>> THEN <<>>
    ELSE IF Len(parts) = 1 THEN parts[1]
         ELSE parts[1] \o <<" ">> \o Join(Tail(parts))

MergeThreshold == 3

\* _merge_single_letter_run that never merges a run.
merge_run_never(run) == run

_merge_single_letter_run(run) ==
    IF Len(run) >= MergeThreshold THEN <<Concat(run)>> ELSE run

\* The for loop of squash_single_letters: out and run after tokens[i..].
RECURSIVE SquashLoop(_, _, _, _)
SquashLoop(toks, i, out, run) ==
    IF i > Len(toks)
    THEN IF run # <<>> THEN out \o _merge_single_letter_run(run) ELSE out
    ELSE IF Len(toks[i]) = 1
         THEN SquashLoop(toks, i + 1, out, Append(run, toks[i]))
         ELSE SquashLoop(toks, i + 1,
                         (IF run # <<>> THEN out \o _merge_single_letter_run(run) ELSE out)
                             \o <<toks[i]>>,
                         <<>>)

\* The for loop without the flush that follows it.
RECURSIVE SquashLoopNoFinalFlush(_, _, _, _)
SquashLoopNoFinalFlush(toks, i, out, run) ==
    IF i > Len(toks)
    THEN out
    ELSE IF Len(toks[i]) = 1
         THEN SquashLoopNoFinalFlush(toks, i + 1, out, Append(run, toks[i]))
         ELSE SquashLoopNoFinalFlush(toks, i + 1,
                         (IF run # <<>> THEN out \o _merge_single_letter_run(run) ELSE out)
                             \o <<toks[i]>>,
                         <<>>)

\* squash_single_letters that forgets the run still open when the input ends.
squash_no_final_flush(toks) ==
    IF toks = <<>> THEN <<>> ELSE SquashLoopNoFinalFlush(toks, 1, <<>>, <<>>)

squash_single_letters(toks) ==
    IF toks = <<>> THEN <<>> ELSE SquashLoop(toks, 1, <<>>, <<>>)

tokenize(t) ==
    IF t = <<>> THEN <<>> ELSE squash_single_letters(Split(t))

----------------------------------------------------------------------------
(* Bucket checking.                                                        *)

\* The pattern _keyword_pattern builds, as the list of its parts:
\*   [word |-> w]  is  \b + re.escape(w) + \b
\*   [gap |-> g]   is  (?:\s+\w+){0,g}\s+
WordPart(w) == [kind |-> "word", word |-> w, gap |-> 0]
GapPart(g) == [kind |-> "gap", word |-> <<>>, gap |-> g]

\* _keyword_pattern with max_gap = 2 for every phrase length.
keyword_pattern_gap2(keyword_tokens) ==
    IF keyword_tokens = <<>> THEN <<>>
    ELSE IF Len(keyword_tokens) = 1 THEN <<WordPart(keyword_tokens[1])>>
    ELSE [i \in 1..(2 * Len(keyword_tokens) - 1) |->
             IF i % 2 = 1 THEN WordPart(keyword_tokens[(i + 1) \div 2])
             ELSE GapPart(2)]

_keyword_pattern(keyword_tokens) ==
    IF keyword_tokens = <<>> THEN <<>>
    ELSE IF Len(keyword_tokens) = 1 THEN <<WordPart(keyword_tokens[1])>>
    ELSE LET max_gap == IF Len(keyword_tokens) >= 3 THEN 2 ELSE 1
         IN  [i \in 1..(2 * Len(keyword_tokens) - 1) |->
                 IF i % 2 = 1 THEN WordPart(keyword_tokens[(i + 1) \div 2])
                 ELSE GapPart(max_gap)]

\* \b at position p of s (between s[p-1] and s[p]).
WordBoundary(s, p) ==
    (p > 1 /\ s[p-1] \in WordChars) # (p <= Len(s) /\ s[p] \in WordChars)

\* The literal w occurs in s at position p.
LiteralAt(s, p, w) ==
    /\ p + Len(w) - 1 <= Len(s)
    /\ \A j \in 1..Len(w) : s[p + j - 1] = w[j]

\* The position after the longest run of characters of class cls from p.
RECURSIVE RunEnd(_, _, _)
RunEnd(s, p, cls) ==
    IF p <= Len(s) /\ s[p] \in cls THEN RunEnd(s, p + 1, cls) ELSE p

\* re's backtracking search: the position after the first match, in the
\* engine's order of preference, of parts k.. of pat at position p of s;
\* 0 when there is none.  Every + and {0,g} is greedy: the longest
\* alternative is tried first and shortened on failure.
RECURSIVE MatchFrom(_, _, _, _), GapTry(_, _, _, _, _), RepS(_, _, _, _, _, _),
          RepW(_, _, _, _, _, _), TailS(_, _, _, _, _)
MatchFrom(pat, k, s, p) ==
    IF pat[k].kind = "word"
    THEN LET w == pat[k].word
             e == p + Len(w)
         IN  IF LiteralAt(s, p, w) /\ WordBoundary(s, p) /\ WordBoundary(s, e)
             THEN (IF k = Len(pat) THEN e ELSE MatchFrom(pat, k + 1, s, e))
             ELSE 0
    ELSE GapTry(pat, k, s, p, pat[k].gap)

\* (?:\s+\w+){0,g}\s+ at p: one more repetition first, then none.
GapTry(pat, k, s, p, g) ==
    LET r == IF g > 0 THEN RepS(pat, k, s, p, RunEnd(s, p, Whitespace), g) ELSE 0
    IN  IF r # 0 THEN r ELSE TailS(pat, k, s, p, RunEnd(s, p, Whitespace))

\* \s+ of a repetition took s[p..e-1].
RepS(pat, k, s, p, e, g) ==
    IF e <= p THEN 0
    ELSE LET r == RepW(pat, k, s, e, RunEnd(s, e, WordChars), g)
         IN  IF r # 0 THEN r ELSE RepS(pat, k, s, p, e - 1, g)

\* \w+ of a repetition took s[p..e-1].
RepW(pat, k, s, p, e, g) ==
    IF e <= p THEN 0
    ELSE LET r == GapTry(pat, k, s, e, g - 1)
         IN  IF r # 0 THEN r ELSE RepW(pat, k, s, p, e - 1, g)

\* The closing \s+ took s[p..e-1].
TailS(pat, k, s, p, e) ==
    IF e <= p THEN 0
    ELSE LET r == MatchFrom(pat, k + 1, s, e)
         IN  IF r # 0 THEN r ELSE TailS(pat, k, s, p, e - 1)

\* len(re.findall(pattern, s)): non-overlapping matches, leftmost first,
\* counted from position p on.
RECURSIVE FindAll(_, _, _)
FindAll(pat, s, p) ==
    IF p > Len(s) THEN 0
    ELSE LET e == MatchFrom(pat, 1, s, p)
         IN  IF e # 0 THEN 1 + FindAll(pat, s, e) ELSE FindAll(pat, s, p + 1)

\* pattern = _keyword_pattern(keyword.split()) of every keyword of the table.
Patterns ==
    [b \in DOMAIN BUCKETS |->
        [i \in 1..Len(BUCKETS[b].keywords) |->
            _keyword_pattern(Split(BUCKETS[b].keywords[i]))]]

RECURSIVE SumSeq(_)
SumSeq(q) == IF q = <<>> THEN 0 ELSE Head(q) + SumSeq(Tail(q))

\* The indices i of q with q[i] > 0, in increasing order.
RECURSIVE PositiveIndices(_, _)
PositiveIndices(q, i) ==
    IF i > Len(q) THEN <<>>
    ELSE (IF q[i] > 0 THEN <<i>> ELSE <<>>) \o PositiveIndices(q, i + 1)

\* The keyword loop of check_buckets for one bucket: matches and count.
BucketScan(b, tokens_text) ==
    LET found == [i \in 1..Len(BUCKETS[b].keywords) |->
                     IF Patterns[b][i] = <<>> THEN 0
                     ELSE FindAll(Patterns[b][i], tokens_text, 1)]
        idx == PositiveIndices(found, 1)
    IN  [risk |-> BUCKETS[b].risk,
         weight |-> BUCKETS[b].weight,
         matches |-> [j \in 1..Len(idx) |-> BUCKETS[b].keywords[idx[j]]],
         count |-> SumSeq(found)]

\* The keyword loop with "count = len(found)" for "count += len(found)".
BucketScanCountAssigned(b, tokens_text) ==
    LET found == [i \in 1..Len(BUCKETS[b].keywords) |->
                     IF Patterns[b][i] = <<>> THEN 0
                     ELSE FindAll(Patterns[b][i], tokens_text, 1)]
        idx == PositiveIndices(found, 1)
    IN  [risk |-> BUCKETS[b].risk,
         weight |-> BUCKETS[b].weight,
         matches |-> [j \in 1..Len(idx) |-> BUCKETS[b].keywords[idx[j]]],
         count |-> IF idx = <<>> THEN 0 ELSE found[idx[Len(idx)]]]

\* The bucket loop that records every bucket, without "if matches:".
match_buckets_every_bucket(toks) ==
    [b \in DOMAIN BUCKETS |-> BucketScan(b, Join(toks))]

\* The bucket loop that counts with "count = len(found)".
match_buckets_count_assigned(toks) ==
    LET scan == [b \in DOMAIN BUCKETS |-> BucketScanCountAssigned(b, Join(toks))]
    IN  [b \in {x \in DOMAIN BUCKETS : scan[x].matches # <<>>} |-> scan[b]]

\* check_buckets after tokenize: tokens_text and the loop over BUCKETS.
match_buckets(toks) ==
    LET tokens_text == Join(toks)
        scan == [b \in DOMAIN BUCKETS |-> BucketScan(b, tokens_text)]
    IN  [b \in {x \in DOMAIN BUCKETS : scan[x].matches # <<>>} |-> scan[b]]

----------------------------------------------------------------------------
(* Decision logic.                                                         *)

BlockThreshold == 6
RestrictThreshold == 3

Max(a, b) == IF a >= b THEN a ELSE b

\* sum(info["weight"] * max(1, info["count"]) for info in bucket_hits.values())
RECURSIVE WeightOver(_, _)
WeightOver(hits, keys) ==
    IF keys = {} THEN 0
    ELSE LET k == CHOOSE x \in keys : TRUE
         IN  hits[k].weight * Max(1, hits[k].count) + WeightOver(hits, keys \ {k})

total_weight(hits) == WeightOver(hits, DOMAIN hits)

\* decide_action without the hard stop on "high".
decide_action_no_high_stop(hits) ==
    LET risks == {hits[b].risk : b \in DOMAIN hits}
    IN  IF "critical" \in risks THEN "BLOCK"
        ELSE IF total_weight(hits) >= BlockThreshold THEN "BLOCK"
        ELSE IF total_weight(hits) >= RestrictThreshold THEN "RESTRICT"
        ELSE "ALLOW"

\* decide_action that blocks only above the threshold (> for >=).
decide_action_strict_block(hits) ==
    LET risks == {hits[b].risk : b \in DOMAIN hits}
    IN  IF "critical" \in risks THEN "BLOCK"
        ELSE IF "high" \in risks THEN "BLOCK"
        ELSE IF total_weight(hits) > BlockThreshold THEN "BLOCK"
        ELSE IF total_weight(hits) >= RestrictThreshold THEN "RESTRICT"
        ELSE "ALLOW"

decide_action(hits) ==
    LET risks == {hits[b].risk : b \in DOMAIN hits}
    IN  IF "critical" \in risks THEN "BLOCK"
        ELSE IF "high" \in risks THEN "BLOCK"
        ELSE IF total_weight(hits) >= BlockThreshold THEN "BLOCK"
        ELSE IF total_weight(hits) >= RestrictThreshold THEN "RESTRICT"
        ELSE "ALLOW"

----------------------------------------------------------------------------
(* Messages.                                                               *)

\* Words joined by single spaces, with fills[i] filler words after words[i].
RECURSIVE Interleave(_, _, _, _)
Interleave(words, fills, filler, i) ==
    IF i > Len(words) THEN <<>>
    ELSE <<words[i]>>
         \o (IF i < Len(words) THEN [j \in 1..fills[i] |-> filler] ELSE <<>>)
         \o Interleave(words, fills, filler, i + 1)

\* All sequences over S of length at most n.
SeqsUpTo(S, n) == UNION {[1..k -> S] : k \in 0..n}

Vocabulary ==
    { <<"r","e","p","l","a","c","e">>, <<"s","y","s","t","e","m">>,
      <<"p","r","o","m","p","t">>, <<"m","e","s","s","a","g","e">>,
      <<"a","c","t","i","n","g">>, <<"r","e","a","c","t","i","n","g">> }

Filler == <<"u","m">>

\* The words of the three-word phrase "replace system prompt" and of the
\* two-word phrases "system prompt" and "system message".
PhraseVocabulary ==
    { <<"r","e","p","l","a","c","e">>, <<"s","y","s","t","e","m">>,
      <<"p","r","o","m","p","t">>, <<"m","e","s","s","a","g","e">> }

\* One or two words of Vocabulary, or three of PhraseVocabulary, in any
\* order, with up to MaxFill filler words between consecutive words.
GapTexts ==
    UNION { { Join(Interleave(w, f, Filler, 1)) : f \in [1..(n - 1) -> 0..MaxFill] }
            : <<n, w>> \in UNION { {n} \X [1..n -> IF n = 3 THEN PhraseVocabulary
                                                   ELSE Vocabulary]
                                    : n \in 1..3 } }

\* Messages without a word: empty, whitespace, punctuation, digits,
\* letters outside ASCII.
DegenerateChars == {" ", "\t", ".", "2", "U+00C9"}

DegenerateTexts == SeqsUpTo(DegenerateChars, MaxDegenerate)

\* The characters of raw messages that normalize is explored on.
RawChars ==
    {"a", "S", "5", "2", "!", ".", "_", " ", "\t",
     "U+00A0", "U+FF33", "U+FB01", "U+2460", "U+00C9"}

RawTexts == SeqsUpTo(RawChars, MaxLen)

\* The buckets whose risk is a hard stop, and their keyword phrases.
HardStopRisks == {"critical", "high"}

HardStopKeywords ==
    UNION { {BUCKETS[b].keywords[i] : i \in 1..Len(BUCKETS[b].keywords)}
            : b \in {x \in DOMAIN BUCKETS : BUCKETS[x].risk \in HardStopRisks} }

\* The phrase with its words joined by underscores.
Underscored(kw) == [i \in 1..Len(kw) |-> IF kw[i] = " " THEN "_" ELSE kw[i]]

\* The phrase with the letters of its j-th word separated by single spaces.
LetterSpaced(kw, j) ==
    LET ws == Split(kw)
    IN  Join([i \in 1..Len(ws) |->
                 IF i = j THEN Join([c \in 1..Len(ws[i]) |-> <<ws[i][c]>>])
                 ELSE ws[i]])

ObfuscatedTexts ==
    {Underscored(kw) : kw \in HardStopKeywords}
    \cup UNION { {LetterSpaced(kw, j) :
                    j \in {x \in 1..Len(Split(kw)) : Len(Split(kw)[x]) >= 3}}
                 : kw \in HardStopKeywords }

MonoVocabulary ==
    { <<"d","i","s","a","b","l","e">>, <<"n","o">>, <<"s","a","f","e","t","y">> }

MonoTexts == {Join(w) : w \in SeqsUpTo(MonoVocabulary, MaxMonoWords)}

SquashTokens == { <<"a">>, <<"b">>, <<"c","d">>, <<"2","e","f">> }

TokenLists == SeqsUpTo(SquashTokens, MaxTokens)

Risks == {"low", "medium", "high", "critical"}

HitRecords ==
    [risk : Risks, weight : 1..MaxWeight, matches : {<<>>}, count : 0..MaxCount]

\* Dicts with the first k bucket names as keys, k <= MaxHits.
HitDicts ==
    UNION { [{BucketOrder[i] : i \in 1..k} -> HitRecords]
            : k \in 0..(IF MaxHits < Len(BucketOrder) THEN MaxHits ELSE Len(BucketOrder)) }

----------------------------------------------------------------------------
(* The pipeline.                                                           *)

NoHits == [b \in {} |-> 0]

Fresh(msg) ==
    /\ pc = "start"
    /\ user_text = msg
    /\ text = <<>>
    /\ split_tokens = <<>>
    /\ tokens = <<>>
    /\ bucket_hits = NoHits
    /\ action = "NONE"
    /\ prev_action = "NONE"
    /\ adds = 0

Init == \E msg \in GapTexts \cup DegenerateTexts : Fresh(msg)

InitObf == \E msg \in ObfuscatedTexts : Fresh(msg)

InitMono == \E msg \in MonoTexts : Fresh(msg)

InitNorm == \E msg \in RawTexts : Fresh(msg)

\* squash_single_letters called on a token list.
InitSquash ==
    /\ pc = "split"
    /\ split_tokens \in TokenLists
    /\ user_text = <<>>
    /\ text = <<>>
    /\ tokens = <<>>
    /\ bucket_hits = NoHits
    /\ action = "NONE"
    /\ prev_action = "NONE"
    /\ adds = 0

\* decide_action called on a dict of hits.
InitDecide ==
    /\ pc = "checked"
    /\ bucket_hits \in HitDicts
    /\ user_text = <<>>
    /\ text = <<>>
    /\ split_tokens = <<>>
    /\ tokens = <<>>
    /\ action = "NONE"
    /\ prev_action = "NONE"
    /\ adds = 0

\* check_buckets: text = normalize(user_text)
Normalize ==
    /\ pc = "start"
    /\ text' = normalize(user_text)
    /\ pc' = "normalized"
    /\ UNCHANGED <<user_text, split_tokens, tokens, bucket_hits, action, prev_action, adds>>

\* check_buckets: tokens = tokenize(text)
Tokenize ==
    /\ pc = "normalized"
    /\ split_tokens' = (IF text = <<>> THEN <<>> ELSE Split(text))
    /\ tokens' = tokenize(text)
    /\ pc' = "tokenized"
    /\ UNCHANGED <<user_text, text, bucket_hits, action, prev_action, adds>>

\* squash_single_letters(tokens), called on its own.
Squash ==
    /\ pc = "split"
    /\ tokens' = squash_single_letters(split_tokens)
    /\ pc' = "tokenized"
    /\ UNCHANGED <<user_text, text, split_tokens, bucket_hits, action, prev_action, adds>>

\* check_buckets: the loop over BUCKETS, and its return.
Match ==
    /\ pc = "tokenized"
    /\ bucket_hits' = match_buckets(tokens)
    /\ pc' = "checked"
    /\ UNCHANGED <<user_text, text, split_tokens, tokens, action, prev_action, adds>>

\* filter_prompt: action = decide_action(bucket_hits), and its return.
Decide ==
    /\ pc = "checked"
    /\ action' = decide_action(bucket_hits)
    /\ pc' = "done"
    /\ UNCHANGED <<user_text, text, split_tokens, tokens, bucket_hits, prev_action, adds>>

\* The sender's next message: the same text with one more occurrence of a
\* phrase that matched, inserted as whole words at a word boundary.
AddOccurrence ==
    /\ pc = "done"
    /\ adds < MaxAdds
    /\ \E b \in DOMAIN bucket_hits :
         \E j \in 1..Len(bucket_hits[b].matches) :
           LET words == Split(user_text)
           IN  \E i \in 0..Len(words) :
                 user_text' = Join(SubSeq(words, 1, i)
                                   \o Split(bucket_hits[b].matches[j])
                                   \o SubSeq(words, i + 1, Len(words)))
    /\ prev_action' = action
    /\ adds' = adds + 1
    /\ pc' = "start"
    /\ text' = <<>>
    /\ split_tokens' = <<>>
    /\ tokens' = <<>>
    /\ bucket_hits' = NoHits
    /\ action' = "NONE"

Next == Normalize \/ Tokenize \/ Match \/ Decide

NextMono == Normalize \/ Tokenize \/ Match \/ Decide \/ AddOccurrence

Spec == Init /\ [][Next]_vars

SpecObf == InitObf /\ [][Next]_vars

SpecMono == InitMono /\ [][NextMono]_vars

SpecNorm == InitNorm /\ [][Normalize]_vars

SpecSquash == InitSquash /\ [][Squash]_vars

SpecDecide == InitDecide /\ [][Decide]_vars

----------------------------------------------------------------------------
(* Properties.                                                             *)

Severity(a) == CASE a = "ALLOW" -> 0 [] a = "RESTRICT" -> 1 [] a = "BLOCK" -> 2

HardStop(h) == \E b \in DOMAIN h : h[b].risk \in HardStopRisks

\* The sum over the hit buckets of weight * max(1, count).
RECURSIVE SumOfWeights(_, _)
SumOfWeights(h, i) ==
    IF i > Len(BucketOrder) THEN 0
    ELSE (IF BucketOrder[i] \in DOMAIN h
          THEN h[BucketOrder[i]].weight
               * (IF h[BucketOrder[i]].count >= 1 THEN h[BucketOrder[i]].count ELSE 1)
          ELSE 0)
         + SumOfWeights(h, i + 1)

\* The words k[i..] are whole tokens of toks at increasing positions from
\* p on, with at most G tokens strictly between consecutive ones.
RECURSIVE ChainFrom(_, _, _, _, _)
ChainFrom(k, i, toks, p, G) ==
    /\ toks[p] = k[i]
    /\ \/ i = Len(k)
       \/ \E q \in (p + 1)..(p + 1 + G) :
            q <= Len(toks) /\ ChainFrom(k, i + 1, toks, q, G)

PhraseOccurs(k, toks) ==
    \E p \in 1..Len(toks) :
        ChainFrom(k, 1, toks, p, IF Len(k) >= 3 THEN 2 ELSE 1)

\* The words of every keyword phrase of the table.
KeywordWords ==
    [b \in DOMAIN BUCKETS |->
        [i \in 1..Len(BUCKETS[b].keywords) |-> Split(BUCKETS[b].keywords[i])]]

Matched(b, kw) ==
    /\ b \in DOMAIN bucket_hits
    /\ \E j \in 1..Len(bucket_hits[b].matches) : bucket_hits[b].matches[j] = kw

NoPhraseOccurs(toks) ==
    \A b \in DOMAIN BUCKETS :
        \A i \in 1..Len(BUCKETS[b].keywords) : ~PhraseOccurs(KeywordWords[b][i], toks)

\* The token list with every maximal run of three or more one-character
\* tokens replaced by their concatenation.
RECURSIVE LeadingSingles(_)
LeadingSingles(t) ==
    IF t # <<>> /\ Len(Head(t)) = 1 THEN 1 + LeadingSingles(Tail(t)) ELSE 0

RECURSIVE RunsMerged(_)
RunsMerged(t) ==
    IF t = <<>> THEN <<>>
    ELSE LET r == LeadingSingles(t)
         IN  IF r = 0 THEN <<Head(t)>> \o RunsMerged(Tail(t))
             ELSE (IF r >= 3 THEN <<Concat(SubSeq(t, 1, r))>> ELSE SubSeq(t, 1, r))
                  \o RunsMerged(SubSeq(t, r + 1, Len(t)))

\* The punctuation characters among RawChars.
PunctuationChars == {"!", "."}

AllLower(s) == \A j \in 1..Len(s) : s[j] \in LowerLetters

\* C1. Hard-stop dominance: whenever a hit bucket has risk critical or high,
\* decide_action returns BLOCK, whatever the weights, the counts and the
\* other hits.
HardStopDominance ==
    (pc = "done" /\ HardStop(bucket_hits)) => action = "BLOCK"

\* A high hit whose weight alone stays below every threshold, beside a low hit.
HardStopWitness ==
    /\ pc = "done"
    /\ action = "BLOCK"
    /\ SumOfWeights(bucket_hits, 1) < 3
    /\ \E b \in DOMAIN bucket_hits : bucket_hits[b].risk = "high"
    /\ \E b \in DOMAIN bucket_hits : bucket_hits[b].risk = "low"
    /\ \A b \in DOMAIN bucket_hits : bucket_hits[b].risk # "critical"

\* C2. Weighted decision: with no high or critical hit, the action is BLOCK
\* when the sum of weight * max(1, count) is at least 6, RESTRICT when it is
\* at least 3 and below 6, and ALLOW when it is below 3.
WeightedDecision ==
    (pc = "done" /\ ~HardStop(bucket_hits)) =>
        action = (IF SumOfWeights(bucket_hits, 1) >= 6 THEN "BLOCK"
                  ELSE IF SumOfWeights(bucket_hits, 1) >= 3 THEN "RESTRICT"
                  ELSE "ALLOW")

\* One occurrence in each of two medium buckets of weight 2 gives RESTRICT.
WeightedWitness ==
    /\ pc = "done"
    /\ action = "RESTRICT"
    /\ Cardinality(DOMAIN bucket_hits) = 2
    /\ \A b \in DOMAIN bucket_hits :
         /\ bucket_hits[b].risk = "medium"
         /\ bucket_hits[b].weight = 2
         /\ bucket_hits[b].count = 1

\* C3. Obfuscation resistance: a phrase of a high or critical bucket written
\* with underscores for spaces, or with the letters of one of its words of
\* three or more letters spaced out, is blocked.
ObfuscationBlocked ==
    pc = "done" => action = "BLOCK"

\* "i g n o r e previous instructions" is blocked through authority_override.
ObfuscationWitness ==
    /\ pc = "done"
    /\ user_text = <<"i"," ","g"," ","n"," ","o"," ","r"," ","e"," ",
                     "p","r","e","v","i","o","u","s"," ",
                     "i","n","s","t","r","u","c","t","i","o","n","s">>
    /\ action = "BLOCK"
    /\ "authority_override" \in DOMAIN bucket_hits

\* C4. Monotonicity: the message with one more occurrence of a phrase that
\* matched, added as whole words at a word boundary, gets an action at least
\* as severe as the message before.
Monotonicity ==
    (pc = "done" /\ adds > 0) => Severity(action) >= Severity(prev_action)

\* C5. Gap-bounded ordered matching: a phrase is among the matches exactly
\* when its words are whole tokens of the token stream, in order, with at
\* most 2 (three or more words) or 1 (two words) tokens in each gap; a
\* one-word phrase exactly when a token equals it.
GapBoundedMatching ==
    pc = "done" =>
        \A b \in DOMAIN BUCKETS :
            \A i \in 1..Len(BUCKETS[b].keywords) :
                Matched(b, BUCKETS[b].keywords[i])
                    <=> PhraseOccurs(KeywordWords[b][i], tokens)

\* "replace system prompt" matched with two words inserted in each gap.
GapBoundedWitness ==
    /\ pc = "done"
    /\ tokens = << <<"r","e","p","l","a","c","e">>, Filler, Filler,
                   <<"s","y","s","t","e","m">>, Filler, Filler,
                   <<"p","r","o","m","p","t">> >>
    /\ Matched("authority_override",
               <<"r","e","p","l","a","c","e"," ","s","y","s","t","e","m"," ",
                 "p","r","o","m","p","t">>)

\* C6. Total function with benign default: every message is at a stage whose
\* step is defined until it has a result, the result is one of the three
\* actions, and a message in which no phrase occurs gets ALLOW with no
\* bucket hit.
BenignAllowed ==
    /\ pc \in {"start", "normalized", "tokenized", "checked", "done"}
    /\ pc = "done" => action \in {"ALLOW", "RESTRICT", "BLOCK"}
    /\ (pc = "done" /\ NoPhraseOccurs(tokens)) =>
           (action = "ALLOW" /\ bucket_hits = NoHits)

\* A message of whitespace only is allowed with no hit.
BenignWitness ==
    /\ pc = "done"
    /\ user_text = <<" ", "\t", " ">>
    /\ action = "ALLOW"
    /\ bucket_hits = NoHits

\* C7. Normalization idempotence: normalize(normalize(x)) = normalize(x).
NormalizeIdempotent ==
    pc = "normalized" => normalize(text) = text

\* "5_!" normalizes to "s i", which normalize leaves alone.
NormalizeWitness ==
    /\ pc = "normalized"
    /\ user_text = <<"5", "_", "!">>
    /\ text = <<"s", " ", "i">>

\* C8. Punctuation becomes a separator: a punctuation character between,
\* before or after words of lowercase letters leaves exactly those words,
\* separated by one space.
PunctuationSeparates ==
    pc = "normalized" =>
        \A i \in 1..Len(user_text) :
            LET u == SubSeq(user_text, 1, i - 1)
                v == SubSeq(user_text, i + 1, Len(user_text))
            IN  (user_text[i] \in PunctuationChars /\ AllLower(u) /\ AllLower(v))
                    => text = Join(SelectSeq(<<u, v>>, LAMBDA w : w # <<>>))

\* C9. Bucket-hit well-formedness: a bucket has an entry exactly when one of
\* its phrases occurs; the entry carries the bucket's risk and weight, its
\* matches are distinct phrases of the bucket in table order, and
\* count >= number of matches >= 1.
BucketHitsWellFormed ==
    pc = "done" =>
        /\ DOMAIN bucket_hits \subseteq DOMAIN BUCKETS
        /\ \A b \in DOMAIN BUCKETS :
             LET kws == BUCKETS[b].keywords
             IN  /\ b \in DOMAIN bucket_hits
                       <=> \E i \in 1..Len(kws) : PhraseOccurs(KeywordWords[b][i], tokens)
                 /\ b \in DOMAIN bucket_hits =>
                       LET h == bucket_hits[b]
                       IN  /\ h.risk = BUCKETS[b].risk
                           /\ h.weight = BUCKETS[b].weight
                           /\ Len(h.matches) >= 1
                           /\ h.count >= Len(h.matches)
                           /\ \A j \in 1..Len(h.matches) :
                                \E i \in 1..Len(kws) : kws[i] = h.matches[j]
                           /\ \A j1, j2 \in 1..Len(h.matches) :
                                j1 < j2 =>
                                    /\ h.matches[j1] # h.matches[j2]
                                    /\ \E i1, i2 \in 1..Len(kws) :
                                         /\ i1 < i2
                                         /\ kws[i1] = h.matches[j1]
                                         /\ kws[i2] = h.matches[j2]

\* "system prompt message": two phrases of prompt_internals match.
BucketHitsWitness ==
    /\ pc = "done"
    /\ "prompt_internals" \in DOMAIN bucket_hits
    /\ Len(bucket_hits["prompt_internals"].matches) = 2
    /\ bucket_hits["prompt_internals"].count = 2

\* C10. Single-letter run merging: squash_single_letters returns the tokens
\* in order with each maximal run of three or more one-character tokens
\* replaced by its concatenation, and everything else unchanged.
SquashMergesRuns ==
    pc = "tokenized" => tokens = RunsMerged(split_tokens)

\* A merged run of three, a longer token, and a run of one left at the end.
SquashWitness ==
    /\ pc = "tokenized"
    /\ split_tokens = << <<"a">>, <<"b">>, <<"a">>, <<"c","d">>, <<"b">> >>
    /\ tokens = << <<"a","b","a">>, <<"c","d">>, <<"b">> >>
====
